---- MODULE Spec2Model ----
(***************************************************************************)
(* Model of src/engine/core.py: calculate_impact, check_data_integrity and *)
(* get_bounding_boxes of the Risk in a Box computational engine.           *)
(*                                                                         *)
(* Numbers that the code compares with numpy.allclose are fixed-point      *)
(* decimals with 12 fractional digits, Fx(i, f) = i + f * 1e-12 with       *)
(* 0 <= f < 10^12, so that tolerances of 1e-12 and 1e-8 are exact.         *)
(* Strings the code slices or concatenates are sequences of characters.    *)
(***************************************************************************)
EXTENDS Integers, Sequences, FiniteSets, TLC

VARIABLES
    pc,               \* position: "idle", a line of calculate_impact, "returned", "raised"
    call,             \* the call in progress or just finished, with its arguments
    ret,              \* what the finished call returned or raised (None while running)
    impact_function,  \* calculate_impact's local: the plugin instance
    F,                \* calculate_impact's local: the plugin's result layer
    output_filename,  \* calculate_impact's local
    log,              \* the calls made on collaborators, in order
    persisted         \* the result as write_to_file saw it (None: nothing written)

vars == <<pc, call, ret, impact_function, F, output_filename, log, persisted>>

\* Python's None, and the mark of a keyword a layer does not have
None == [type |-> "NoneType"]
NoAttr == "NoAttr"

(***************************************************************************)
(* Bounds of the model.                                                    *)
(***************************************************************************)
MaxLayers == 3

(***************************************************************************)
(* Fixed-point numbers and numpy.allclose.                                 *)
(***************************************************************************)
Fx(i, f) == [int |-> i, frac |-> f]

FxAdd(a, d) == Fx(a.int, a.frac + d)

FxGeq(a, b) == a.int > b.int \/ (a.int = b.int /\ a.frac >= b.frac)

\* |a - b| as a pair (whole units, 1e-12 units); the second part may be negative.
FxAbsDiff(a, b) ==
    IF FxGeq(a, b) THEN [int |-> a.int - b.int, frac |-> a.frac - b.frac]
                   ELSE [int |-> b.int - a.int, frac |-> b.frac - a.frac]

\* d.int * 10^12 + d.frac <= t, without leaving 32 bits
FxDiffLeq(d, t) == d.int * 10^6 <= ((t - d.frac) \div 10^6)

\* floor(x / 10^k) for 0 <= k <= 12
FloorDivPow10(x, k) == (x \div 10^(k \div 2)) \div 10^(k - (k \div 2))

\* the exponents of the tolerances: rtol = 10^-RtolDigits, atol = 10^-AtolDigits
RtolDigits == 12
AtolDigits == 8
DefaultRtolDigits == 5

\* floor of (atol + rtol * |b|) in 1e-12 units, for b >= 0
Tolerance(b, rtolDigits) ==
    10^(12 - AtolDigits) + b.int * 10^(12 - rtolDigits)
        + FloorDivPow10(b.frac, rtolDigits)

\* numpy.isclose(a, b, rtol): |a - b| <= atol + rtol * |b|
isclose(a, b, rtolDigits) == FxDiffLeq(FxAbsDiff(a, b), Tolerance(b, rtolDigits))

\* numpy.allclose on two sequences of numbers of the same length
allclose(A, B, rtolDigits) ==
    \A k \in 1..Len(A) : isclose(A[k], B[k], rtolDigits)

\* numpy.allclose on two Nx2 point arrays: "True", "False" or "ValueError"
\* (shapes that do not broadcast)
allclose_points(A, B, rtolDigits) ==
    IF Len(A) # Len(B) /\ Len(A) # 1 /\ Len(B) # 1 THEN "ValueError"
    ELSE LET n == IF Len(A) = 1 THEN Len(B) ELSE Len(A)
             a(k) == IF Len(A) = 1 THEN A[1] ELSE A[k]
             b(k) == IF Len(B) = 1 THEN B[1] ELSE B[k]
         IN IF \A k \in 1..n : allclose(a(k), b(k), rtolDigits)
            THEN "True" ELSE "False"

(***************************************************************************)
(* Strings as sequences of characters.                                     *)
(***************************************************************************)
Str_Flood == <<"F", "l", "o", "o", "d">>
Str_Population == <<"P", "o", "p", "u", "l", "a", "t", "i", "o", "n">>
Str_Separator == <<" ", "X", " ">>
Str_Impact == <<"I", "m", "p", "a", "c", "t">>
Str_Given == <<"G", "i", "v", "e", "n">>
Str_Empty == <<>>

(***************************************************************************)
(* Layers.  A raster carries geotransform, rows and columns; a vector      *)
(* carries geometry (its length is the number of features).  An attribute  *)
(* a variant does not have is a field its record does not have.            *)
(***************************************************************************)
DEFAULT_PROJECTION == "WGS84"
OtherProjection == "UTM48S"

REQUIRED_KEYWORDS == <<"category", "subcategory">>

Keywords(category, subcategory) ==
    LET c == IF category = NoAttr THEN <<>> ELSE [x \in {"category"} |-> category]
        s == IF subcategory = NoAttr THEN <<>> ELSE [x \in {"subcategory"} |-> subcategory]
    IN c @@ s

KwGood == Keywords("hazard", "flood")
KwBad == { Keywords(NoAttr, "flood"), Keywords("hazard", ""), Keywords("", NoAttr) }

Raster(name, keywords, projection, geotransform, rows, columns) ==
    [name |-> name, keywords |-> keywords, projection |-> projection,
     is_raster |-> TRUE, is_vector |-> FALSE,
     geotransform |-> geotransform, rows |-> rows, columns |-> columns]

Vector(name, keywords, projection, geometry) ==
    [name |-> name, keywords |-> keywords, projection |-> projection,
     is_raster |-> FALSE, is_vector |-> TRUE,
     geometry |-> geometry]

\* len(layer)
LayerLen(layer) == Len(layer.geometry)

\* origin 100.0 / 10.0 degrees, pixel size 0.001 degrees, no rotation
G0 == <<Fx(100, 0), Fx(0, 10^9), Fx(0, 0), Fx(10, 0), Fx(0, 0), Fx(0, 10^9)>>

\* differences from G0, in 1e-12 units: inside the relative tolerance of the
\* origin (1e-10), between it and the absolute tolerance, and beyond both
Offsets == {50, 5000, 20000}

GeoSet ==
    {G0} \cup { [G0 EXCEPT ![1] = FxAdd(G0[1], d)] : d \in Offsets }
         \cup { [G0 EXCEPT ![2] = FxAdd(G0[2], 5000)] }

DimSet == { <<2, 2>>, <<1, 2>>, <<2, 1>> }

P1 == <<Fx(100, 0), Fx(10, 0)>>
P1near == <<Fx(100, 5 * 10^8), Fx(10, 0)>>
P1far == <<Fx(101, 0), Fx(10, 0)>>
GeomSet == { <<>>, <<P1>>, <<P1near>>, <<P1far>>, <<P1, P1>>, <<P1, P1far>> }

R0 == Raster(Str_Flood, KwGood, DEFAULT_PROJECTION, G0, 2, 2)
V0 == Vector(Str_Population, KwGood, DEFAULT_PROJECTION, <<P1>>)

\* layers that deviate from R0 or V0 in one attribute, and some that deviate in two
Rasters ==
    {R0}
    \cup { [R0 EXCEPT !.keywords = k] : k \in KwBad }
    \cup { [R0 EXCEPT !.projection = OtherProjection] }
    \cup { [R0 EXCEPT !.geotransform = g] : g \in GeoSet }
    \cup { [R0 EXCEPT !.rows = d[1], !.columns = d[2]] : d \in DimSet }
    \cup { [R0 EXCEPT !.keywords = Keywords("hazard", ""), !.projection = OtherProjection],
           [R0 EXCEPT !.projection = OtherProjection,
                      !.geotransform = [G0 EXCEPT ![1] = FxAdd(G0[1], 20000)]],
           [R0 EXCEPT !.geotransform = [G0 EXCEPT ![1] = FxAdd(G0[1], 20000)],
                      !.rows = 1] }

Vectors ==
    {V0}
    \cup { [V0 EXCEPT !.keywords = Keywords(NoAttr, "flood")] }
    \cup { [V0 EXCEPT !.projection = OtherProjection] }
    \cup { [V0 EXCEPT !.geometry = g] : g \in GeomSet }
    \cup { [V0 EXCEPT !.projection = OtherProjection, !.geometry = <<>>],
           [V0 EXCEPT !.keywords = Keywords("", NoAttr), !.geometry = <<P1far>>] }

LayerSet == Rasters \cup Vectors

SeqsUpTo(S, n) == UNION { [1..k -> S] : k \in 0..n }

LayerLists == SeqsUpTo(LayerSet, MaxLayers)


hasattr(obj, attr) == attr \in DOMAIN obj

(***************************************************************************)
(* check_data_integrity.  The outcome of a call is Passed or a failure     *)
(* naming the exception, the check that raised it (1 keywords,             *)
(* 2 projection, 3 geotransform, 4 coordinates, 5 non-empty vector,        *)
(* 6 alignment), the layer (its index in the list and its name) and the    *)
(* keyword or dimension concerned.                                         *)
(***************************************************************************)
Passed == [ok |-> TRUE]

Failure(exception, check, kind, i, name, detail) ==
    [ok |-> FALSE, exception |-> exception, check |-> check, kind |-> kind,
     layer |-> i, name |-> name, detail |-> detail]

\* the truth value Python gives a keyword's value
Truthy(val) == val # ""

\* lines 117-125: the loop over REQUIRED_KEYWORDS, from its k-th keyword
RECURSIVE CheckKeywordsFrom(_, _, _)
CheckKeywordsFrom(layer, i, k) ==
    IF k > Len(REQUIRED_KEYWORDS) THEN Passed
    ELSE LET kw == REQUIRED_KEYWORDS[k]
             keywords == layer.keywords
         IN IF kw \notin DOMAIN keywords
            THEN Failure("AssertionError", 1, "MissingKeyword", i, layer.name, kw)
            ELSE IF ~Truthy(keywords[kw])
            THEN Failure("AssertionError", 1, "EmptyKeyword", i, layer.name, kw)
            ELSE CheckKeywordsFrom(layer, i, k + 1)

\* a keyword check that looks for the keyword but not at its value
CheckKeywords_PresenceOnly(layer, i) ==
    LET missing == { k \in 1..Len(REQUIRED_KEYWORDS) :
                        REQUIRED_KEYWORDS[k] \notin DOMAIN layer.keywords }
    IN IF missing = {} THEN Passed
       ELSE Failure("AssertionError", 1, "MissingKeyword", i, layer.name,
                    REQUIRED_KEYWORDS[CHOOSE k \in missing : \A m \in missing : k <= m])

CheckKeywords(layer, i) == CheckKeywordsFrom(layer, i, 1)

\* line 109; None would adopt the first layer's projection
InitialReferenceProjection_None == None

InitialReferenceProjection == [projection |-> DEFAULT_PROJECTION]

\* lines 109-111: the loop's variables before the first layer
InitialLoopState ==
    [reference_projection |-> InitialReferenceProjection,
     geotransform |-> None,
     coordinates |-> None]

\* lines 128-135
CheckProjection(layer, i, st) ==
    IF st.reference_projection = None
    THEN [res |-> Passed,
          st |-> [st EXCEPT !.reference_projection = [projection |-> layer.projection]]]
    ELSE IF st.reference_projection.projection = layer.projection
    THEN [res |-> Passed, st |-> st]
    ELSE [res |-> Failure("AssertionError", 2, "ProjectionMismatch", i, layer.name, ""),
          st |-> st]

\* lines 139-147
CheckGeotransform(layer, i, st) ==
    IF ~layer.is_raster THEN [res |-> Passed, st |-> st]
    ELSE IF st.geotransform = None
    THEN [res |-> Passed,
          st |-> [st EXCEPT !.geotransform = [value |-> layer.geotransform]]]
    ELSE IF allclose(st.geotransform.value, layer.geotransform, RtolDigits)
    THEN [res |-> Passed, st |-> st]
    ELSE [res |-> Failure("AssertionError", 3, "GeotransformMismatch", i, layer.name, ""),
          st |-> st]

\* lines 151-163
CheckVector(layer, i, st) ==
    IF ~layer.is_vector THEN [res |-> Passed, st |-> st]
    ELSE
      LET first == st.coordinates = None
          st2 == IF first THEN [st EXCEPT !.coordinates = [value |-> layer.geometry]]
                 ELSE st
          close == IF first THEN "True"
                   ELSE allclose_points(st.coordinates.value, layer.geometry,
                                        DefaultRtolDigits)
      IN IF close = "ValueError"
         THEN [res |-> Failure("ValueError", 4, "CoordinateMismatch", i, layer.name, ""),
               st |-> st2]
         ELSE IF close = "False"
         THEN [res |-> Failure("AssertionError", 4, "CoordinateMismatch", i, layer.name, ""),
               st |-> st2]
         ELSE IF ~(LayerLen(layer) > 0)
         THEN [res |-> Failure("AssertionError", 5, "EmptyVectorLayer", i, layer.name, ""),
               st |-> st2]
         ELSE [res |-> Passed, st |-> st2]

\* the body of the first loop with the projection looked at before the keywords
CheckLayer_ProjectionFirst(layer, i, st) ==
    LET p == CheckProjection(layer, i, st) IN
    IF ~p.res.ok THEN p
    ELSE LET kw == CheckKeywords(layer, i) IN
    IF ~kw.ok THEN [res |-> kw, st |-> st]
    ELSE LET g == CheckGeotransform(layer, i, p.st) IN
    IF ~g.res.ok THEN g
    ELSE CheckVector(layer, i, g.st)

\* lines 113-163: the body of the first loop for one layer
CheckLayer(layer, i, st) ==
    LET kw == CheckKeywords(layer, i) IN
    IF ~kw.ok THEN [res |-> kw, st |-> st]
    ELSE LET p == CheckProjection(layer, i, st) IN
    IF ~p.res.ok THEN p
    ELSE LET g == CheckGeotransform(layer, i, p.st) IN
    IF ~g.res.ok THEN g
    ELSE CheckVector(layer, i, g.st)

\* lines 113-163: the first loop, from layer i
RECURSIVE FirstPass(_, _, _)
FirstPass(layer_files, i, st) ==
    IF i > Len(layer_files) THEN Passed
    ELSE LET r == CheckLayer(layer_files[i], i, st)
         IN IF ~r.res.ok THEN r.res ELSE FirstPass(layer_files, i + 1, r.st)

\* lines 170-185: the second loop, from layer i
RECURSIVE AlignmentLoop(_, _, _, _)
AlignmentLoop(layer_files, i, M, N) ==
    IF i > Len(layer_files) THEN Passed
    ELSE LET layer == layer_files[i]
         IN IF ~layer.is_raster THEN AlignmentLoop(layer_files, i + 1, M, N)
            ELSE IF layer.rows # M
            THEN Failure("AssertionError", 6, "DimensionMismatch", i, layer.name, "rows")
            ELSE IF layer.columns # N
            THEN Failure("AssertionError", 6, "DimensionMismatch", i, layer.name, "columns")
            ELSE AlignmentLoop(layer_files, i + 1, M, N)

\* lines 165-185
CheckAlignment(layer_files) ==
    IF Len(layer_files) = 0
    THEN Failure("IndexError", 6, "NoFirstLayer", 0, Str_Empty, "")
    ELSE IF ~hasattr(layer_files[1], "rows")
    THEN Failure("AttributeError", 6, "NoRows", 1, layer_files[1].name, "rows")
    ELSE AlignmentLoop(layer_files, 1, layer_files[1].rows, layer_files[1].columns)

\* lines 93-185
check_data_integrity(layer_files) ==
    LET first == FirstPass(layer_files, 1, InitialLoopState)
    IN IF ~first.ok THEN first ELSE CheckAlignment(layer_files)


(***************************************************************************)
(* get_bounding_boxes.                                                     *)
(***************************************************************************)
\* bounding boxes [west, south, east, north]; every one has west < east and
\* south < north
BoxSet ==
    { <<0, 0, 10, 10>>, <<2, 2, 8, 8>>, <<4, 4, 12, 12>>,
      <<0, 0, 1, 1>>, <<5, 5, 6, 6>>, <<8, 8, 12, 12>> }

Max2(a, b) == IF a >= b THEN a ELSE b
Min2(a, b) == IF a <= b THEN a ELSE b

BBox(b) == [type |-> "bbox", value |-> b]

\* storage.utilities.bbox_intersection: the common box, or None
bbox_intersection(a, b, c) ==
    LET west == Max2(a[1], Max2(b[1], c[1]))
        south == Max2(a[2], Max2(b[2], c[2]))
        east == Min2(a[3], Min2(b[3], c[3]))
        north == Min2(a[4], Min2(b[4], c[4]))
    IN IF west < east /\ south < north THEN BBox(<<west, south, east, north>>)
       ELSE None

\* a spatial layer object, an object that says it is none, and an object
\* without the attribute
SpatialObject(b) == [is_riab_spatial_object |-> TRUE, bounding_box |-> b]
Objects ==
    { SpatialObject(b) : b \in BoxSet }
    \cup { [is_riab_spatial_object |-> FALSE, bounding_box |-> <<0, 0, 10, 10>>],
           [bounding_box |-> <<0, 0, 10, 10>>] }

\* an argument is a layer object or the filename of one (read_layer reads it)
DataSet ==
    { [is_basestring |-> FALSE, object |-> o] : o \in Objects }
    \cup { [is_basestring |-> TRUE, object |-> SpatialObject(b)] :
              b \in {<<2, 2, 8, 8>>, <<5, 5, 6, 6>>} }

\* a requested box is a sequence, or something list() cannot iterate
ReqBoxSet ==
    { [is_iterable |-> TRUE, value |-> b] : b \in BoxSet }
    \cup { [is_iterable |-> FALSE, value |-> <<>>] }

Raised(exception, kind, detail) ==
    [raised |-> TRUE, exception |-> exception, kind |-> kind, detail |-> detail]

Returned(value) == [raised |-> FALSE, value |-> value]

PyTuple(items) == [type |-> "tuple", items |-> items]

\* lines 207-208, 215-216
is_valid_spatial_object(layer) ==
    hasattr(layer, "is_riab_spatial_object") /\ layer.is_riab_spatial_object

\* storage.core.read_layer: the layer a filename names
read_layer(data) == data.object

\* lines 230-260: the intersection, the failure when there is none, the return
common_bounding_box(vpt_bbox, haz_bbox, exp_bbox) ==
    LET intersection_bbox == bbox_intersection(vpt_bbox, haz_bbox, exp_bbox)
    IN IF intersection_bbox = None
       THEN Raised("Exception", "NoOverlap", <<haz_bbox, exp_bbox, vpt_bbox>>)
       ELSE Returned(PyTuple(<<intersection_bbox, None>>))

\* lines 188-260
get_bounding_boxes(haz_data, exp_data, req_bbox) ==
    LET haz_layer == IF haz_data.is_basestring THEN read_layer(haz_data)
                     ELSE haz_data.object
        exp_layer == IF exp_data.is_basestring THEN read_layer(exp_data)
                     ELSE exp_data.object
    IN IF ~is_valid_spatial_object(haz_layer)
       THEN Raised("AssertionError", "NotASpatialObject", "hazard")
       ELSE IF ~is_valid_spatial_object(exp_layer)
       THEN Raised("AssertionError", "NotASpatialObject", "exposure")
       ELSE IF ~req_bbox.is_iterable
       THEN Raised("Exception", "InvalidBoundingBox", "")
       ELSE common_bounding_box(req_bbox.value, haz_layer.bounding_box,
                                exp_layer.bounding_box)

(***************************************************************************)
(* calculate_impact.                                                       *)
(***************************************************************************)
\* the layers calculate_impact is called with
ImpactLayerSet ==
    { R0, V0,
      [R0 EXCEPT !.rows = 1],
      [R0 EXCEPT !.keywords = Keywords("hazard", "")],
      [V0 EXCEPT !.projection = OtherProjection] }

ImpactLayerLists == SeqsUpTo(ImpactLayerSet, MaxLayers)

\* what run returns: None, or a layer with or without a name of its own
ResultLayer(is_raster, name) ==
    [type |-> "layer", is_raster |-> is_raster, name |-> name, filename |-> None]

RunResults ==
    {None} \cup { ResultLayer(r, n) : r \in BOOLEAN, n \in {Str_Empty, Str_Given} }

\* impact function classes: with or without the attribute plugin_name
ImpactFunctions ==
    { [result |-> r] : r \in RunResults }
    \cup { [result |-> r, plugin_name |-> Str_Impact] : r \in RunResults }

\* storage.utilities.unique_filename
unique_filename(suffix) == [type |-> "filename", suffix |-> suffix]

\* lines 74-82
DefaultName(layers, function) ==
    LET RECURSIVE Joined(_)
        Joined(n) == IF n = 0 THEN Str_Empty
                     ELSE Joined(n - 1) \o layers[n].name \o Str_Separator
        default_name == Joined(Len(layers))
    IN IF hasattr(function, "plugin_name")
       THEN default_name \o function.plugin_name
       ELSE SubSeq(default_name, 1, Len(default_name) - 2)

\* the statements of calculate_impact with the name established before the write
NextLine_NameBeforeWrite(line) ==
    CASE line = "L49" -> "L52"
      [] line = "L52" -> "L55"
      [] line = "L55" -> "L58"
      [] line = "L58" -> "L61"
      [] line = "L61" -> "L73"
      [] line = "L73" -> "L70"
      [] line = "L70" -> "L90"
      [] line = "L90" -> "returned"

\* lines 48-90: the statement that follows each statement of calculate_impact
NextLine(line) ==
    CASE line = "L49" -> "L52"
      [] line = "L52" -> "L55"
      [] line = "L55" -> "L58"
      [] line = "L58" -> "L61"
      [] line = "L61" -> "L70"
      [] line = "L70" -> "L73"
      [] line = "L73" -> "L90"
      [] line = "L90" -> "returned"

Event(name, arg) == [call |-> name, arg |-> arg]


(***************************************************************************)
(* The state machine.  A caller invokes one operation at a time; the       *)
(* validator and the bounding box resolver run to completion in one step,  *)
(* calculate_impact statement by statement.                                *)
(***************************************************************************)
Init ==
    /\ pc = "idle"
    /\ call = None
    /\ ret = None
    /\ impact_function = None
    /\ F = None
    /\ output_filename = None
    /\ log = <<>>
    /\ persisted = None

\* calls share no state: one call at a time, each from the state of Init
Callable == pc = "idle"

ResetLocals ==
    /\ impact_function' = None
    /\ F' = None
    /\ output_filename' = None
    /\ log' = <<>>
    /\ persisted' = None

\* a caller runs check_data_integrity(layer_files)
Call_check_data_integrity ==
    /\ Callable
    /\ \E layer_files \in LayerLists :
         LET r == check_data_integrity(layer_files)
         IN /\ call' = [op |-> "check_data_integrity", layers |-> layer_files]
            /\ ret' = IF r.ok THEN Returned(None) ELSE Raised(r.exception, r.kind, r)
            /\ pc' = IF r.ok THEN "returned" ELSE "raised"
    /\ ResetLocals

\* a caller runs get_bounding_boxes(haz_data, exp_data, req_bbox)
Call_get_bounding_boxes ==
    /\ Callable
    /\ \E haz_data \in DataSet, exp_data \in DataSet, req_bbox \in ReqBoxSet :
         LET r == get_bounding_boxes(haz_data, exp_data, req_bbox)
         IN /\ call' = [op |-> "get_bounding_boxes", haz_data |-> haz_data,
                        exp_data |-> exp_data, req_bbox |-> req_bbox]
            /\ ret' = r
            /\ pc' = IF r.raised THEN "raised" ELSE "returned"
    /\ ResetLocals

\* a caller enters calculate_impact(layers, impact_fcn)
Call_calculate_impact ==
    /\ Callable
    /\ \E layers \in ImpactLayerLists, impact_fcn \in ImpactFunctions :
         call' = [op |-> "calculate_impact", layers |-> layers,
                  impact_fcn |-> impact_fcn]
    /\ ret' = None
    /\ pc' = "L49"
    /\ ResetLocals

\* line 49 with a failed check ignored
L49_check_data_integrity_Ignored ==
    /\ pc = "L49"
    /\ log' = Append(log, Event("check_data_integrity", None))
    /\ pc' = NextLine(pc)
    /\ UNCHANGED <<call, ret, impact_function, F, output_filename, persisted>>

\* line 49
L49_check_data_integrity ==
    /\ pc = "L49"
    /\ log' = Append(log, Event("check_data_integrity", None))
    /\ LET r == check_data_integrity(call.layers)
       IN IF r.ok
          THEN pc' = NextLine(pc) /\ ret' = ret
          ELSE pc' = "raised" /\ ret' = Raised(r.exception, r.kind, r)
    /\ UNCHANGED <<call, impact_function, F, output_filename, persisted>>

\* line 52
L52_impact_fcn ==
    /\ pc = "L52"
    /\ impact_function' = call.impact_fcn
    /\ log' = Append(log, Event("impact_fcn", None))
    /\ pc' = NextLine(pc)
    /\ UNCHANGED <<call, ret, F, output_filename, persisted>>

\* line 55
L55_run ==
    /\ pc = "L55"
    /\ F' = impact_function.result
    /\ log' = Append(log, Event("run", None))
    /\ pc' = NextLine(pc)
    /\ UNCHANGED <<call, ret, impact_function, output_filename, persisted>>

\* lines 57-58 without the assertion
L58_assert_Missing ==
    /\ pc = "L58"
    /\ pc' = NextLine(pc)
    /\ UNCHANGED <<call, ret, impact_function, F, output_filename, log, persisted>>

\* lines 57-58
L58_assert ==
    /\ pc = "L58"
    /\ IF F # None
       THEN pc' = NextLine(pc) /\ ret' = ret
       ELSE pc' = "raised" /\ ret' = Raised("AssertionError", "NullResult", None)
    /\ UNCHANGED <<call, impact_function, F, output_filename, log, persisted>>

\* lines 61-69; F.is_raster of None is an AttributeError
L61_filename ==
    /\ pc = "L61"
    /\ IF F = None
       THEN /\ pc' = "raised"
            /\ ret' = Raised("AttributeError", "NoIsRaster", None)
            /\ UNCHANGED <<F, output_filename, log>>
       ELSE LET extension == IF F.is_raster THEN ".tif" ELSE ".shp"
                name == unique_filename(extension)
            IN /\ output_filename' = name
               /\ F' = [F EXCEPT !.filename = name]
               /\ log' = Append(Append(log, Event("unique_filename", extension)),
                                Event("set_filename", name))
               /\ pc' = NextLine(pc)
               /\ ret' = ret
    /\ UNCHANGED <<call, impact_function, persisted>>

\* line 70; the write may fail
L70_write_to_file ==
    /\ pc = "L70"
    /\ log' = Append(log, Event("write_to_file", output_filename))
    /\ \E written \in BOOLEAN :
         IF written
         THEN persisted' = F /\ pc' = NextLine(pc) /\ ret' = ret
         ELSE persisted' = persisted /\ pc' = "raised"
              /\ ret' = Raised("Exception", "WriteFailed", None)
    /\ UNCHANGED <<call, impact_function, F, output_filename>>

\* lines 72-84
L73_default_name ==
    /\ pc = "L73"
    /\ IF F.name = Str_Empty
       THEN LET default_name == DefaultName(call.layers, impact_function)
            IN /\ F' = [F EXCEPT !.name = default_name]
               /\ log' = Append(log, Event("set_name", default_name))
       ELSE UNCHANGED <<F, log>>
    /\ pc' = NextLine(pc)
    /\ UNCHANGED <<call, ret, impact_function, output_filename, persisted>>

\* line 90
L90_return ==
    /\ pc = "L90"
    /\ ret' = Returned(F)
    /\ pc' = NextLine(pc)
    /\ UNCHANGED <<call, impact_function, F, output_filename, log, persisted>>

\* the caller has its answer; nothing of the call is kept
Finish ==
    /\ pc \in {"returned", "raised"}
    /\ pc' = "idle"
    /\ call' = None
    /\ ret' = None
    /\ ResetLocals

Next ==
    \/ Call_check_data_integrity
    \/ Call_get_bounding_boxes
    \/ Call_calculate_impact
    \/ L49_check_data_integrity
    \/ L52_impact_fcn
    \/ L55_run
    \/ L58_assert
    \/ L61_filename
    \/ L70_write_to_file
    \/ L73_default_name
    \/ L90_return
    \/ Finish

Spec == Init /\ [][Next]_vars

(***************************************************************************)
(* Properties of calculate_impact.                                         *)
(***************************************************************************)
InCall(op) == pc # "idle" /\ call.op = op

Finished(op) == pc \in {"returned", "raised"} /\ call.op = op

Called(name) == \E k \in 1..Len(log) : log[k].call = name

\* C1: when check_data_integrity fails on the layers calculate_impact was given,
\* the call fails with that failure and nothing after the check happens: no
\* impact function is made, run is not invoked, no filename is generated or
\* assigned and write_to_file is not called.
C1_ValidationFailureStopsPipeline ==
    (InCall("calculate_impact") /\ pc # "L49"
        /\ ~check_data_integrity(call.layers).ok)
    => LET r == check_data_integrity(call.layers)
       IN /\ pc = "raised"
          /\ ret = Raised(r.exception, r.kind, r)
          /\ ~Called("impact_fcn") /\ ~Called("run")
          /\ ~Called("unique_filename") /\ ~Called("set_filename")
          /\ ~Called("write_to_file") /\ ~Called("set_name")
          /\ impact_function = None /\ F = None
          /\ output_filename = None /\ persisted = None

C1_Witness ==
    /\ InCall("calculate_impact") /\ pc = "raised"
    /\ Len(call.layers) = 2
    /\ ~check_data_integrity(call.layers).ok
    /\ call.impact_fcn.result # None

\* C2: when run returns None on validated layers, calculate_impact fails with
\* the assertion on the null result, and in that invocation no filename is
\* generated and write_to_file is not called.
C2_NullResultRejected ==
    (InCall("calculate_impact") /\ call.impact_fcn.result = None)
    => /\ ~Called("unique_filename") /\ ~Called("set_filename")
       /\ ~Called("write_to_file")
       /\ output_filename = None /\ persisted = None
       /\ (Called("run") /\ pc # "L58")
            => (pc = "raised" /\ ret = Raised("AssertionError", "NullResult", None))

C2_Witness ==
    /\ InCall("calculate_impact") /\ pc = "raised"
    /\ Called("run") /\ F = None
    /\ call.impact_fcn.result = None
    /\ Len(call.layers) = 2

\* the names of the layers joined by " X ", nothing after the last name
RECURSIVE JoinNames(_)
JoinNames(layers) ==
    IF Len(layers) = 0 THEN Str_Empty
    ELSE IF Len(layers) = 1 THEN layers[1].name
    ELSE JoinNames(SubSeq(layers, 1, Len(layers) - 1)) \o Str_Separator
            \o layers[Len(layers)].name

\* C3: when the result's name is unset and the impact function has no
\* plugin_name, the name calculate_impact assigns is the layers' names joined
\* by " X " with nothing after the last name ("Flood X Population").
C3_DefaultNameIsJoinedNames ==
    (Finished("calculate_impact") /\ pc = "returned"
        /\ ~hasattr(impact_function, "plugin_name")
        /\ impact_function.result.name = Str_Empty)
    => ret.value.name = JoinNames(call.layers)

\* the place of each collaborator call in the order of a successful invocation
Rank(name) ==
    CASE name = "check_data_integrity" -> 1
      [] name = "impact_fcn" -> 2
      [] name = "run" -> 3
      [] name = "unique_filename" -> 4
      [] name = "set_filename" -> 5
      [] name = "write_to_file" -> 6
      [] name = "set_name" -> 7

MinOf(S) == CHOOSE x \in S : \A y \in S : x <= y
MaxOf(S) == CHOOSE x \in S : \A y \in S : x >= y

\* the required keywords (by position) a layer lacks or holds no value for
KeywordDefects(layer) ==
    { k \in 1..Len(REQUIRED_KEYWORDS) :
        \/ REQUIRED_KEYWORDS[k] \notin DOMAIN layer.keywords
        \/ layer.keywords[REQUIRED_KEYWORDS[k]] = "" }

RastersBefore(L, i) == { j \in 1..(i - 1) : L[j].is_raster }
VectorsBefore(L, i) == { j \in 1..(i - 1) : L[j].is_vector }

\* the number of the first per-layer check layer i does not meet, 0 if it
\* meets them all (the references are those of the first raster and the
\* first vector of the list)
FirstFailedCheck(L, i) ==
    LET layer == L[i]
    IN IF KeywordDefects(layer) # {} THEN 1
       ELSE IF layer.projection # DEFAULT_PROJECTION THEN 2
       ELSE IF /\ layer.is_raster
               /\ RastersBefore(L, i) # {}
               /\ ~allclose(L[MinOf(RastersBefore(L, i))].geotransform,
                            layer.geotransform, RtolDigits)
            THEN 3
       ELSE IF /\ layer.is_vector
               /\ VectorsBefore(L, i) # {}
               /\ allclose_points(L[MinOf(VectorsBefore(L, i))].geometry,
                                  layer.geometry, DefaultRtolDigits) # "True"
            THEN 4
       ELSE IF layer.is_vector /\ Len(layer.geometry) = 0 THEN 5
       ELSE 0

FailingLayers(L) == { i \in 1..Len(L) : FirstFailedCheck(L, i) # 0 }

PerLayerChecksPass(L) == FailingLayers(L) = {}

\* two raster layers of the list differ in rows or in columns
RastersDiffer(L) ==
    \E i, j \in 1..Len(L) :
        /\ L[i].is_raster /\ L[j].is_raster
        /\ (L[i].rows # L[j].rows \/ L[i].columns # L[j].columns)

\* C5: for a (non-empty) list that passes the per-layer checks, whatever the
\* kinds of its layers and their order, the dimension check fails exactly
\* when two raster layers differ in rows or in columns.
C5_AlignmentIffRastersAgree ==
    (Finished("check_data_integrity") /\ Len(call.layers) > 0
        /\ PerLayerChecksPass(call.layers))
    => (ret.raised <=> RastersDiffer(call.layers))

\* every check but the projection's passes on the list: the per-layer checks
\* pass once every projection is the default, and the alignment pass, which
\* reads rows and columns of the first layer, finds them and finds every
\* raster's equal to them
OtherChecksPass(L) ==
    /\ \A i \in 1..Len(L) :
         LET M == [k \in 1..Len(L) |-> [L[k] EXCEPT !.projection = DEFAULT_PROJECTION]]
         IN FirstFailedCheck(M, i) = 0
    /\ Len(L) > 0
    /\ hasattr(L[1], "rows") /\ hasattr(L[1], "columns")
    /\ ~RastersDiffer(L)

\* C6: the reference projection is the default for the whole call: a list
\* whose other checks pass is accepted exactly when every layer's projection
\* is the default, and is otherwise rejected with a projection mismatch (so
\* is a list whose layers share one other projection).
C6_ProjectionMustBeDefault ==
    (Finished("check_data_integrity") /\ OtherChecksPass(call.layers))
    => /\ ~ret.raised <=> \A i \in 1..Len(call.layers) :
                              call.layers[i].projection = DEFAULT_PROJECTION
       /\ ret.raised => ret.kind = "ProjectionMismatch"

C6_Witness ==
    /\ Finished("check_data_integrity") /\ OtherChecksPass(call.layers)
    /\ Len(call.layers) = 2
    /\ \A i \in 1..2 : call.layers[i].projection = OtherProjection
    /\ ret.raised /\ ret.kind = "ProjectionMismatch" /\ ret.detail.layer = 1

\* |a - b| <= 1e-12 * |b|, for b >= 0
WithinRelativeTolerance(a, b) == FxDiffLeq(FxAbsDiff(a, b), b.int)

\* C7: in a list that meets every other condition, a later raster's
\* geotransform is accepted when each of its 6 components is within the 1e-12
\* relative tolerance of the first raster's, and rejected with a geotransform
\* mismatch when some component differs by more than that relative tolerance.
C7_RelativeToleranceDecides ==
    Finished("check_data_integrity")
    => \A j \in 1..Len(call.layers) :
         LET L == call.layers
             before == RastersBefore(L, j)
             ref == L[MinOf(before)].geotransform
         IN (/\ L[j].is_raster /\ before # {}
             /\ \A i \in 1..Len(L) : i # j => FirstFailedCheck(L, i) = 0
             /\ FirstFailedCheck(L, j) \in {0, 3}
             /\ hasattr(L[1], "rows") /\ ~RastersDiffer(L))
            => /\ (\A k \in 1..6 : WithinRelativeTolerance(ref[k], L[j].geotransform[k]))
                    => ~ret.raised
               /\ (\E k \in 1..6 : ~WithinRelativeTolerance(ref[k], L[j].geotransform[k]))
                    => /\ ret.raised /\ ret.kind = "GeotransformMismatch"
                       /\ ret.detail.layer = j

\* C9: a list with a layer that lacks a required keyword, or holds an empty
\* value for one, is rejected; when the layers before the first such layer
\* pass their checks, the failure names that layer and its first such keyword.
C9_KeywordFailureNamesLayerAndKeyword ==
    Finished("check_data_integrity")
    => LET L == call.layers
           bad == { i \in 1..Len(L) : KeywordDefects(L[i]) # {} }
           i == MinOf(bad)
           kw == REQUIRED_KEYWORDS[MinOf(KeywordDefects(L[i]))]
       IN bad # {}
          => /\ ret.raised
             /\ (\A j \in 1..(i - 1) : FirstFailedCheck(L, j) = 0)
                  => /\ ret.exception = "AssertionError"
                     /\ ret.kind = IF kw \in DOMAIN L[i].keywords
                                   THEN "EmptyKeyword" ELSE "MissingKeyword"
                     /\ ret.detail.check = 1
                     /\ ret.detail.layer = i
                     /\ ret.detail.name = L[i].name
                     /\ ret.detail.detail = kw

C9_Witness ==
    /\ Finished("check_data_integrity")
    /\ Len(call.layers) = 3
    /\ KeywordDefects(call.layers[1]) = {}
    /\ KeywordDefects(call.layers[2]) = {1, 2}
    /\ KeywordDefects(call.layers[3]) # {}
    /\ ret.raised /\ ret.kind = "EmptyKeyword" /\ ret.detail.layer = 2
    /\ ret.detail.detail = "category"

\* C10: the failure reported is the first unmet condition in the order
\* layer by layer and, within a layer, keywords, projection, geotransform,
\* coordinates, non-emptiness; the alignment of rows and columns is looked at
\* only when every layer has passed all of these.
C10_FirstUnmetConditionInOrder ==
    Finished("check_data_integrity")
    => LET L == call.layers
           bad == FailingLayers(L)
       IN /\ bad # {}
               => /\ ret.raised
                  /\ ret.detail.layer = MinOf(bad)
                  /\ ret.detail.check = FirstFailedCheck(L, MinOf(bad))
          /\ (bad = {} /\ ret.raised) => ret.detail.check = 6
          /\ (ret.raised /\ ret.kind = "DimensionMismatch") => bad = {}

C10_Witness ==
    /\ Finished("check_data_integrity")
    /\ Len(call.layers) = 3
    /\ RastersDiffer(call.layers)
    /\ FirstFailedCheck(call.layers, 1) = 0
    /\ FirstFailedCheck(call.layers, 2) = 2
    /\ KeywordDefects(call.layers[2]) = {}
    /\ call.layers[2].is_raster
    /\ \E k \in RastersBefore(call.layers, 2) :
         ~allclose(call.layers[k].geotransform, call.layers[2].geotransform, RtolDigits)
    /\ FirstFailedCheck(call.layers, 3) = 1
    /\ ret.raised /\ ret.detail.layer = 2 /\ ret.detail.check = 2

(***************************************************************************)
(* Properties of get_bounding_boxes.                                       *)
(***************************************************************************)
ValidInputs(c) ==
    /\ is_valid_spatial_object(c.haz_data.object)
    /\ is_valid_spatial_object(c.exp_data.object)
    /\ c.req_bbox.is_iterable

\* the three boxes of a call: viewport, hazard, exposure
Boxes(c) ==
    { c.req_bbox.value, c.haz_data.object.bounding_box,
      c.exp_data.object.bounding_box }

\* west = max of the wests, south = max of the souths, east = min of the
\* easts, north = min of the norths
Intersection(c) ==
    << MaxOf({ b[1] : b \in Boxes(c) }), MaxOf({ b[2] : b \in Boxes(c) }),
       MinOf({ b[3] : b \in Boxes(c) }), MinOf({ b[4] : b \in Boxes(c) }) >>

NonDegenerate(b) == b[1] < b[3] /\ b[2] < b[4]

\* C8: on valid inputs the call returns the intersection box itself, which
\* has west < east and south < north, or the intersection is empty or
\* degenerate and the call fails with the overlap error.
C8_ReturnsTheBox ==
    (Finished("get_bounding_boxes") /\ ValidInputs(call))
    => /\ ~ret.raised
            => /\ ret.value = BBox(Intersection(call))
               /\ NonDegenerate(Intersection(call))
       /\ ret.raised
            => /\ ~NonDegenerate(Intersection(call))
               /\ ret.kind = "NoOverlap"
====
